---- MODULE Spec2Model ----
(***************************************************************************)
(* Model of src/reuse/global_licensing.py: construction of the two kinds   *)
(* of GlobalLicensing documents (ReuseDep5, ReuseTOML), construction of    *)
(* AnnotationsItem from a REUSE.toml [[annotations]] table, and            *)
(* reuse_info_of.                                                          *)
(*                                                                         *)
(* Python values are tagged records [kind, val]; a raised exception is an  *)
(* outcome [kind |-> "raise", val |-> <exception class>].  The attrs       *)
(* generated __init__ runs every converter in field order and then every   *)
(* validator in field order.                                               *)
(***************************************************************************)
EXTENDS Integers, Sequences, FiniteSets, TLC

(* ------------------------------ bounds -------------------------------- *)

MaxAnnotations == 2
MaxParagraphs == 2
MaxPathLen == 2

(* --------------------------- Python values ---------------------------- *)

None == [kind |-> "none", val |-> "None"]
PyStr(s) == [kind |-> "str", val |-> s]
PyInt(i) == [kind |-> "int", val |-> i]
PyBool(b) == [kind |-> "bool", val |-> b]
PyList(s) == [kind |-> "list", val |-> s]
PyDict(f) == [kind |-> "dict", val |-> f]
PySet(S) == [kind |-> "set", val |-> S]
Expr(s) == [kind |-> "expr", val |-> s]
Raise(e) == [kind |-> "raise", val |-> e]

IsRaise(o) == o.kind = "raise"

\* dict.get(key) and dict.get(key, default)
Get(d, key, default) == IF key \in DOMAIN d.val THEN d.val[key] ELSE default

Range(s) == {s[i] : i \in DOMAIN s}

\* isinstance(value, str) / isinstance(value, int): bool is a subclass of int
IsInstanceStr(value) == value.kind = "str"
IsInstanceInt(value) == value.kind \in {"int", "bool"}
IsInstanceExpression(value) == value.kind = "expr"
IsInstanceSet(value) == value.kind = "set"

\* hasattr(value, "__iter__")
HasIter(value) == value.kind \in {"str", "list", "dict", "set"}
\* hash(value) raises TypeError for lists, dicts and sets
Hashable(value) == value.kind \notin {"list", "dict", "set"}

\* The exception classes that occur and their base classes (reflexive).
Bases(e) ==
    CASE e = "UnicodeDecodeError" -> {e, "ValueError", "Exception"}
      [] e = "FileNotFoundError" -> {e, "OSError", "Exception"}
      [] e = "NotMachineReadableError" -> {e, "DebianError", "Exception"}
      [] e = "MachineReadableFormatError" ->
            {e, "DebianError", "ValueError", "Exception"}
      [] e = "PermissionError" -> {e, "OSError", "Exception"}
      [] e = "TOMLKitParseError" -> {e, "ValueError", "Exception"}
      [] OTHER -> {e, "Exception"}

\* "except classes:" catches the raised exception o
Catches(classes, o) == IsRaise(o) /\ Bases(o.val) \cap classes # {}

(* ----------------------- _LICENSING.parse ----------------------------- *)

\* The license texts of the model and what Licensing.parse makes of each:
\* a well-formed expression parses, an empty text yields None, and a
\* malformed text (dangling operator, unbalanced parenthesis) raises.
ValidExpressionTexts == {"MIT", "Apache-2.0", "MIT OR Apache-2.0"}
EmptyExpressionTexts == {""}

\* "ExpressionError" stands for the family (ExpressionError, ParseError)
\* that _str_to_set_of_expr catches and re-raises.
LicensingParse(expression) ==
    IF expression.kind = "none" THEN None
    ELSE IF expression.kind = "expr" THEN expression
    ELSE IF ~IsInstanceStr(expression) THEN Raise("ExpressionError")
    ELSE IF expression.val \in EmptyExpressionTexts THEN None
    ELSE IF expression.val \in ValidExpressionTexts THEN Expr(expression.val)
    ELSE Raise("ExpressionError")

(* ---------------------- converters and validators --------------------- *)

\* _str_to_set: a str is never iterated, an iterable is consumed into a
\* set (set() raises TypeError on an unhashable element, iterating a dict
\* yields its keys), anything else becomes a singleton.
StrToSet(value) ==
    IF IsInstanceStr(value) THEN PySet({value})
    ELSE IF HasIter(value) THEN
        IF value.kind = "list"
        THEN IF \A x \in Range(value.val) : Hashable(x)
             THEN PySet(Range(value.val))
             ELSE Raise("TypeError")
        ELSE IF value.kind = "dict"
        THEN PySet({PyStr(k) : k \in DOMAIN value.val})
        ELSE value
    ELSE PySet({value})

\* _str_to_set_of_expr that logs an element that fails to parse and goes on
\* with the others
StrToSetOfExprSkipping(value) ==
    LET s == StrToSet(value) IN
    IF IsRaise(s) THEN s
    ELSE PySet({LicensingParse(x) :
                    x \in {y \in s.val : ~IsRaise(LicensingParse(y))}})

\* _str_to_set_of_expr: the first element that fails to parse aborts the
\* whole conversion; no partial set is returned.
StrToSetOfExpr(value) ==
    LET s == StrToSet(value) IN
    IF IsRaise(s) THEN s
    ELSE IF \E x \in s.val : IsRaise(LicensingParse(x))
        THEN Raise("ExpressionError")
        ELSE PySet({LicensingParse(x) : x \in s.val})

\* _validate_collection_of_type(..., set, str): TRUE when it returns,
\* FALSE when it raises TypeError.
ValidateSetOfStr(value) ==
    /\ IsInstanceSet(value)
    /\ \A item \in value.val : IsInstanceStr(item)

\* _validate_collection_of_type(..., set, Expression)
ValidateSetOfExpr(value) ==
    /\ IsInstanceSet(value)
    /\ \A item \in value.val : IsInstanceExpression(item)

\* Literal["aggregate", "file", "toml"].__args__
PrecedenceArgs == {"aggregate", "file", "toml"}

\* _validate_literal that lets an absent value through
ValidateLiteralOptional(value) ==
    \/ value = None
    \/ /\ IsInstanceStr(value)
       /\ value.val \in PrecedenceArgs

\* _validate_literal: TRUE when it returns, FALSE when it raises ValueError.
ValidateLiteral(value) ==
    /\ IsInstanceStr(value)
    /\ value.val \in PrecedenceArgs

(* --------------------------- AnnotationsItem -------------------------- *)

AnnotationsItem(paths, precedence, copyright_lines, spdx_expressions) ==
    [kind |-> "AnnotationsItem",
     val |-> [paths |-> paths.val,
              precedence |-> precedence,
              copyright_lines |-> copyright_lines.val,
              spdx_expressions |-> spdx_expressions.val]]

\* The attrs __init__ of AnnotationsItem: converters of paths,
\* copyright_lines and spdx_expressions in field order, then the four
\* validators in field order.
AnnotationsItemInit(paths, precedence, copyright_lines, spdx_expressions) ==
    LET p == StrToSet(paths)
        c == StrToSet(copyright_lines)
        e == StrToSetOfExpr(spdx_expressions)
    IN  IF IsRaise(p) THEN p
        ELSE IF IsRaise(c) THEN c
        ELSE IF IsRaise(e) THEN e
        ELSE IF ~ValidateSetOfStr(p) THEN Raise("TypeError")
        ELSE IF ~ValidateLiteral(precedence) THEN Raise("ValueError")
        ELSE IF ~ValidateSetOfStr(c) THEN Raise("TypeError")
        ELSE IF ~ValidateSetOfExpr(e) THEN Raise("TypeError")
        ELSE AnnotationsItem(p, precedence, c, e)

\* AnnotationsItem.from_dict; values.get on a non-dict is an AttributeError.
AnnotationsItemFromDict(values) ==
    IF values.kind # "dict" THEN Raise("AttributeError")
    ELSE AnnotationsItemInit(Get(values, "path", None),
                             Get(values, "precedence", None),
                             Get(values, "SPDX-FileCopyrightText", None),
                             Get(values, "SPDX-License-Identifier", None))

(* ------------------------------ files --------------------------------- *)

\* path.open(encoding="utf-8") followed by reading the whole stream: a
\* missing file and a denied one fail in open(), bytes that are not UTF-8
\* fail in the read; otherwise the decoded text is obtained.
OpenAndRead(file) ==
    CASE file.kind = "missing" -> Raise("FileNotFoundError")
      [] file.kind = "denied" -> Raise("PermissionError")
      [] file.kind = "undecodable" -> Raise("UnicodeDecodeError")
      [] OTHER -> file.val

\* Copyright(fp) of python-debian on decoded text: the Files paragraphs of
\* a well-formed file, or one of the errors the library raises.
DebianCopyright(text) ==
    CASE text.kind = "dep5" -> [kind |-> "Copyright", val |-> text.val]
      [] text.kind = "notdep5" -> Raise("NotMachineReadableError")
      [] text.kind = "malformed" -> Raise("MachineReadableFormatError")
      [] OTHER -> Raise("ValueError")

\* tomlkit.loads
TomlkitLoads(toml) ==
    IF toml.kind = "toml" THEN toml.val ELSE Raise("TOMLKitParseError")

(* ------------------------------ ReuseDep5 ----------------------------- *)

\* The attrs __init__ of ReuseDep5 (validator of GlobalLicensing.source)
ReuseDep5Init(source, dep5_copyright) ==
    IF ~IsInstanceStr(source) THEN Raise("TypeError")
    ELSE [kind |-> "ReuseDep5",
          val |-> [source |-> source.val, dep5_copyright |-> dep5_copyright]]

\* ReuseDep5.from_file without its first handler
Dep5HandlersWrapping(body) ==
    IF Catches({"DebianError", "ValueError"}, body)
    THEN Raise("GlobalLicensingParseError")
    ELSE body

\* The handlers of ReuseDep5.from_file in the order they are tried.
Dep5Handlers(body) ==
    IF Catches({"UnicodeDecodeError"}, body) THEN body
    ELSE IF Catches({"DebianError", "ValueError"}, body)
        THEN Raise("GlobalLicensingParseError")
        ELSE body

\* ReuseDep5.from_file; path is the str of the Path.
ReuseDep5FromFile(path, file) ==
    LET text == OpenAndRead(file)
        body == IF IsRaise(text) THEN text
                ELSE LET c == DebianCopyright(text)
                     IN  IF IsRaise(c) THEN c
                         ELSE ReuseDep5Init(PyStr(path), c)
    IN  Dep5Handlers(body)

(* ------------------------------ ReuseTOML ----------------------------- *)

Min(S) == CHOOSE x \in S : \A y \in S : x <= y

\* _validate_list_of_annotations_items
ValidateListOfAnnotationsItems(value) ==
    /\ value.kind = "list"
    /\ \A item \in Range(value.val) : item.kind = "AnnotationsItem"

\* The attrs __init__ of ReuseTOML: validators of source, version and
\* annotations in field order (the base class's field comes first).
ReuseTOMLInit(source, version, annotations) ==
    IF ~IsInstanceStr(source) THEN Raise("TypeError")
    ELSE IF ~IsInstanceInt(version) THEN Raise("TypeError")
    ELSE IF ~ValidateListOfAnnotationsItems(annotations)
        THEN Raise("TypeError")
    ELSE [kind |-> "ReuseTOML",
          val |-> [source |-> source.val,
                   version |-> version,
                   annotations |-> annotations.val]]

Reverse(s) == [i \in DOMAIN s |-> s[Len(s) + 1 - i]]

\* The list comprehension of ReuseTOML.from_dict collecting the items in
\* the opposite order
AnnotationsOfReversed(annotation_dicts) ==
    IF ~HasIter(annotation_dicts) THEN Raise("TypeError")
    ELSE IF annotation_dicts.kind = "str"
        THEN IF annotation_dicts.val = "" THEN PyList(<<>>)
             ELSE Raise("AttributeError")
    ELSE IF annotation_dicts.kind = "dict"
        THEN IF DOMAIN annotation_dicts.val = {} THEN PyList(<<>>)
             ELSE Raise("AttributeError")
    ELSE LET s == annotation_dicts.val
             items == [i \in DOMAIN s |-> AnnotationsItemFromDict(s[i])]
             failing == {i \in DOMAIN s : IsRaise(items[i])}
         IN  IF failing # {} THEN items[Min(failing)]
             ELSE PyList(Reverse(items))

\* The list comprehension of ReuseTOML.from_dict: iterates whatever the
\* "annotations" key holds and calls AnnotationsItem.from_dict on each
\* element in turn; the first exception ends it.
AnnotationsOf(annotation_dicts) ==
    IF ~HasIter(annotation_dicts) THEN Raise("TypeError")
    ELSE IF annotation_dicts.kind = "str"
        THEN IF annotation_dicts.val = "" THEN PyList(<<>>)
             ELSE Raise("AttributeError")
    ELSE IF annotation_dicts.kind = "dict"
        THEN IF DOMAIN annotation_dicts.val = {} THEN PyList(<<>>)
             ELSE Raise("AttributeError")
    ELSE LET s == annotation_dicts.val
             items == [i \in DOMAIN s |-> AnnotationsItemFromDict(s[i])]
             failing == {i \in DOMAIN s : IsRaise(items[i])}
         IN  IF failing # {} THEN items[Min(failing)] ELSE PyList(items)

\* ReuseTOML.from_dict
ReuseTOMLFromDict(values, source) ==
    IF values.kind # "dict" THEN Raise("AttributeError")
    ELSE LET version == Get(values, "version", None)
             annotations == AnnotationsOf(Get(values, "annotations",
                                              PyList(<<>>)))
         IN  IF IsRaise(annotations) THEN annotations
             ELSE ReuseTOMLInit(source, version, annotations)

\* ReuseTOML.from_toml
ReuseTOMLFromToml(toml, source) ==
    LET tomldict == TomlkitLoads(toml)
    IN  IF IsRaise(tomldict) THEN tomldict
        ELSE ReuseTOMLFromDict(tomldict, source)

\* ReuseTOML.from_file: no handler, every exception propagates.
ReuseTOMLFromFile(path, file) ==
    LET text == OpenAndRead(file)
    IN  IF IsRaise(text) THEN text
        ELSE ReuseTOMLFromToml(text, PyStr(path))

(* ------------------------------ paths --------------------------------- *)

\* A path string is the sequence of its "/"-separated segments, so that
\* "a//b" is <<"a", "", "b">> and "/a" is <<"", "a">>.
LeadingSlashes(raw) ==
    IF \A i \in DOMAIN raw : raw[i] = "" THEN Len(raw) - 1
    ELSE CHOOSE k \in 0..Len(raw) :
            /\ \A i \in 1..k : raw[i] = ""
            /\ raw[k + 1] # ""

IsNamePart(segment) == segment \notin {"", "."}

\* PurePath(path).as_posix() on a POSIX host: empty and "." segments are
\* dropped, exactly two leading slashes are kept, more collapse to one,
\* and the empty path is ".".
AsPosix(raw) ==
    LET n == LeadingSlashes(raw)
        root == IF n = 0 THEN "" ELSE IF n = 2 THEN "//" ELSE "/"
        parts == SelectSeq(raw, IsNamePart)
    IN  [kind |-> "path",
         val |-> [root |-> root,
                  parts |-> IF root = "" /\ parts = <<>> THEN <<".">>
                            ELSE parts]]

\* A Files pattern of debian/copyright is a sequence of segments whose
\* last one may be "*", which matches any remainder, "/" included.
MatchesPattern(pattern, path) ==
    LET k == Len(pattern) - 1
        q == path.val.parts
    IN  IF pattern[Len(pattern)] = "*"
        THEN \/ k = 0
             \/ /\ path.val.root = ""
                /\ Len(q) > k
                /\ SubSeq(q, 1, k) = SubSeq(pattern, 1, k)
        ELSE path.val.root = "" /\ q = pattern

\* Copyright.find_files_paragraph: the last Files paragraph one of whose
\* patterns matches, or None.
FindFilesParagraph(dep5_copyright, path) ==
    LET ps == dep5_copyright.val
        matching == {i \in DOMAIN ps :
                        \E pat \in ps[i].files : MatchesPattern(pat, path)}
    IN  IF matching = {} THEN None
        ELSE [kind |-> "FilesParagraph",
              val |-> ps[CHOOSE i \in matching : \A j \in matching : j <= i]]

(* ------------------------------ text ---------------------------------- *)

\* A text is the sequence of its characters.
RECURSIVE SplitLines(_)
\* str.splitlines
SplitLines(text) ==
    IF text = <<>> THEN <<>>
    ELSE LET breaks == {i \in DOMAIN text : text[i] = "\n"}
         IN  IF breaks = {} THEN <<text>>
             ELSE <<SubSeq(text, 1, Min(breaks) - 1)>>
                  \o SplitLines(SubSeq(text, Min(breaks) + 1, Len(text)))

IsSpace(c) == c \in {" ", "\t", "\n"}

\* str.strip
Strip(line) ==
    LET inked == {i \in DOMAIN line : ~IsSpace(line[i])}
    IN  IF inked = {} THEN <<>>
        ELSE SubSeq(line, Min(inked),
                    CHOOSE i \in inked : \A j \in inked : j <= i)

(* ---------------------------- reuse_info_of --------------------------- *)

\* ReuseInfo() with every argument defaulted
EmptyReuseInfo ==
    [kind |-> "ReuseInfo",
     val |-> [spdx_expressions |-> {},
              copyright_lines |-> {},
              path |-> None,
              source_type |-> None,
              source_path |-> None]]

\* The hardcoded source_path of ReuseDep5.reuse_info_of
Dep5SourcePath == ".reuse/dep5"

\* ReuseDep5.reuse_info_of; an exception of _LICENSING.parse on the
\* paragraph's license synopsis is not handled.
ReuseDep5ReuseInfoOf(self, rawpath) ==
    LET path == AsPosix(rawpath)
        result == FindFilesParagraph(self.val.dep5_copyright, path)
    IN  IF result = None THEN EmptyReuseInfo
        ELSE LET expression == LicensingParse(PyStr(result.val.license))
             IN  IF IsRaise(expression) THEN expression
                 ELSE [kind |-> "ReuseInfo",
                       val |-> [spdx_expressions |-> {expression},
                                copyright_lines |->
                                    {Strip(l) : l \in
                                        Range(SplitLines(result.val.copyright))},
                                path |-> path,
                                source_type |-> PyStr("DEP5"),
                                source_path |-> PyStr(Dep5SourcePath)]]

\* ReuseTOML.reuse_info_of
ReuseTOMLReuseInfoOf(self, rawpath) == Raise("NotImplementedError")

\* document.reuse_info_of(path), dispatched on the class of the document
ReuseInfoOf(self, rawpath) ==
    IF self.kind = "ReuseDep5" THEN ReuseDep5ReuseInfoOf(self, rawpath)
    ELSE ReuseTOMLReuseInfoOf(self, rawpath)

(* ------------------------------ inputs -------------------------------- *)

\* Marks a key that the dict does not have.
Absent == [kind |-> "absent", val |-> "absent"]

\* The dict with the given keys, the Absent ones left out.
DictOf(full) ==
    PyDict([k \in {k \in DOMAIN full : full[k] # Absent} |-> full[k]])

ItemDict(path, precedence, copyright, license) ==
    DictOf([k \in {"path", "precedence", "SPDX-FileCopyrightText",
                   "SPDX-License-Identifier"} |->
               CASE k = "path" -> path
                 [] k = "precedence" -> precedence
                 [] k = "SPDX-FileCopyrightText" -> copyright
                 [] OTHER -> license])

PathValues ==
    {Absent, PyStr("**"), PyList(<<>>),
     PyList(<<PyStr("src/*"), PyStr("*.py")>>), PyInt(1),
     PyList(<<PyStr("src/*"), PyInt(1)>>),
     PyList(<<PyStr("src/*"), PyList(<<>>)>>)}

PrecedenceValues ==
    {Absent, PyStr("aggregate"), PyStr("file"), PyStr("toml"),
     PyStr("override"), PyInt(1)}

CopyrightValues ==
    {Absent, PyStr("2023 Jane"), PyList(<<>>),
     PyList(<<PyStr("2023 Jane"), PyStr("2024 Joe")>>)}

LicenseValues ==
    {Absent, PyStr("MIT"), PyStr("MIT OR"), PyStr(""), PyList(<<>>),
     PyList(<<PyStr("MIT"), PyStr("Apache-2.0")>>),
     PyList(<<PyStr("MIT"), PyStr("MIT OR")>>)}

\* The records given to AnnotationsItem.from_dict on its own
ItemDicts ==
    {ItemDict(p, pr, c, l) : p \in PathValues, pr \in PrecedenceValues,
                             c \in CopyrightValues, l \in LicenseValues}

\* The elements of an "annotations" array: tables, and a stray string
AnnotationElements ==
    {ItemDict(p, pr, PyStr("2023 Jane"), l) :
        p \in {PyStr("**"), PyList(<<>>)},
        pr \in {Absent, PyStr("aggregate"), PyStr("toml")},
        l \in {PyStr("MIT"), PyStr("MIT OR")}}
    \cup {PyStr("x")}

SeqsUpTo(S, n) == UNION {[1..k -> S] : k \in 0..n}

AnnotationsValues ==
    {PyList(s) : s \in SeqsUpTo(AnnotationElements, MaxAnnotations)}
    \cup {Absent, PyStr(""), PyStr("ab"), PyInt(1)}

VersionValues == {Absent, PyInt(1), PyInt(99), PyStr("1"), PyBool(TRUE)}

\* The dict versions of REUSE.toml
TomlDicts ==
    {DictOf([k \in {"version", "annotations"} |->
                IF k = "version" THEN v ELSE a]) :
        v \in VersionValues, a \in AnnotationsValues}

SourceValues == {PyStr("REUSE.toml"), None}

TomlTexts ==
    {[kind |-> "toml", val |-> d] : d \in TomlDicts}
    \cup {[kind |-> "nottoml", val |-> "version = "]}

FailingFiles ==
    {[kind |-> k, val |-> None] : k \in {"missing", "denied", "undecodable"}}

TomlFiles ==
    FailingFiles \cup {[kind |-> "text", val |-> t] : t \in TomlTexts}

TomlFilePaths == {"REUSE.toml"}

\* The Files paragraphs of a dep5 file
CopyrightTexts ==
    {<<"c", " ", "\n", " ", "d", "\n">>}

FilesParagraphs ==
    [files : {{<<"*">>}, {<<"a", "*">>, <<"b">>}},
     license : {"MIT", "MIT OR", ""},
     copyright : CopyrightTexts]

Dep5Texts ==
    {[kind |-> "dep5", val |-> s] :
        s \in SeqsUpTo(FilesParagraphs, MaxParagraphs)}
    \cup {[kind |-> k, val |-> <<>>] :
            k \in {"notdep5", "malformed", "badvalue"}}

Dep5Files ==
    FailingFiles \cup {[kind |-> "text", val |-> t] : t \in Dep5Texts}

Dep5FilePaths == {".reuse/dep5", "/proj/.reuse/dep5"}

\* The query paths, as sequences of "/"-separated segments
RawPaths ==
    UNION {[1..k -> {"a", "b", ".", ""}] : k \in 1..MaxPathLen}

(* ------------------------------ state --------------------------------- *)

VARIABLES
    document,   \* the GlobalLicensing object the caller holds, or None
    call,       \* the last call made and its arguments
    outcome     \* what that call returned or raised

vars == <<document, call, outcome>>

Call(name, args) == [kind |-> name, val |-> args]

Init ==
    /\ document = None
    /\ call = Call("none", <<>>)
    /\ outcome = None

\* No call has been made since the start or the last Discard.
Idle == call.kind = "none"

\* A constructor's result is kept when it returns; when it raises the
\* caller holds no document.
Load(name, args, result) ==
    /\ call' = Call(name, args)
    /\ outcome' = result
    /\ document' = IF IsRaise(result) THEN None ELSE result

ItemFromDict ==
    /\ Idle
    /\ \E values \in ItemDicts :
        /\ call' = Call("AnnotationsItem.from_dict", [values |-> values])
        /\ outcome' = AnnotationsItemFromDict(values)
        /\ UNCHANGED document

TomlFromDict ==
    /\ Idle
    /\ \E values \in TomlDicts, source \in SourceValues :
        Load("ReuseTOML.from_dict", [values |-> values, source |-> source],
             ReuseTOMLFromDict(values, source))

TomlFromToml ==
    /\ Idle
    /\ \E toml \in TomlTexts, source \in SourceValues :
        Load("ReuseTOML.from_toml", [toml |-> toml, source |-> source],
             ReuseTOMLFromToml(toml, source))

TomlFromFile ==
    /\ Idle
    /\ \E path \in TomlFilePaths, file \in TomlFiles :
        Load("ReuseTOML.from_file", [path |-> path, file |-> file],
             ReuseTOMLFromFile(path, file))

Dep5FromFile ==
    /\ Idle
    /\ \E path \in Dep5FilePaths, file \in Dep5Files :
        Load("ReuseDep5.from_file", [path |-> path, file |-> file],
             ReuseDep5FromFile(path, file))

Query ==
    /\ document # None
    /\ \E path \in RawPaths :
        /\ call' = Call("reuse_info_of", [path |-> path])
        /\ outcome' = ReuseInfoOf(document, path)
        /\ UNCHANGED document

\* The caller drops what the last call gave and starts over.
Discard ==
    /\ ~Idle
    /\ document' = None
    /\ call' = Call("none", <<>>)
    /\ outcome' = None

Next ==
    \/ ItemFromDict
    \/ TomlFromDict
    \/ TomlFromToml
    \/ TomlFromFile
    \/ Dep5FromFile
    \/ Query
    \/ Discard

Spec == Init /\ [][Next]_vars

(* ------------------------------ claims -------------------------------- *)

\* Whether the last call was a ReuseTOML constructor that got as far as
\* a dict version of the document.
HasTomlDict ==
    \/ call.kind = "ReuseTOML.from_dict"
    \/ call.kind = "ReuseTOML.from_toml" /\ call.val.toml.kind = "toml"
    \/ /\ call.kind = "ReuseTOML.from_file"
       /\ call.val.file.kind = "text"
       /\ call.val.file.val.kind = "toml"

\* The dict version of the document of the last ReuseTOML constructor call
CallTomlDict ==
    CASE call.kind = "ReuseTOML.from_dict" -> call.val.values
      [] call.kind = "ReuseTOML.from_toml" -> call.val.toml.val
      [] OTHER -> call.val.file.val.val

\* C1: a ReuseTOML constructor given a record whose version is the
\* unsupported integer 99 raises, and no document is produced.
C1_UnsupportedVersionRejected ==
    (HasTomlDict /\ Get(CallTomlDict, "version", None) = PyInt(99))
        => /\ IsRaise(outcome)
           /\ document = None

\* C2: reuse_info_of on a constructed document of either variant returns a
\* ReuseInfo for every query path and never ends in an error.
C2_ResolutionInfallible ==
    call.kind = "reuse_info_of" => outcome.kind = "ReuseInfo"

\* A glob pattern that matches every path
MatchesEveryPath(pattern) == pattern = PyStr("**")

\* The items of a modern document that match every query path
MatchingItems(doc) ==
    {i \in DOMAIN doc.val.annotations :
        \E pattern \in doc.val.annotations[i].val.paths :
            MatchesEveryPath(pattern)}

\* C3: when the most specific matching item of a modern document (the one
\* declared last) has precedence toml, reuse_info_of returns a ReuseInfo
\* holding exactly that item's license expressions and copyright lines.
C3_TomlOverride ==
    (/\ call.kind = "reuse_info_of"
     /\ document.kind = "ReuseTOML"
     /\ MatchingItems(document) # {})
        => LET last == CHOOSE i \in MatchingItems(document) :
                          \A j \in MatchingItems(document) : j <= i
               item == document.val.annotations[last]
           IN  item.val.precedence = PyStr("toml")
                  => /\ outcome.kind = "ReuseInfo"
                     /\ outcome.val.spdx_expressions = item.val.spdx_expressions
                     /\ outcome.val.copyright_lines = item.val.copyright_lines

IsItemCall == call.kind = "AnnotationsItem.from_dict"

RecognizedPrecedence == {PyStr("aggregate"), PyStr("file"), PyStr("toml")}

\* C4: AnnotationsItem.from_dict on a record whose precedence is absent or
\* unrecognized raises and returns no item (a ValueError when the record is
\* otherwise constructible); every item constructed, alone or inside a
\* document, has precedence aggregate, file or toml.
C4_NoDefaultPrecedence ==
    /\ (IsItemCall
        /\ Get(call.val.values, "precedence", None) \notin RecognizedPrecedence)
          => /\ IsRaise(outcome)
             /\ ~IsRaise(AnnotationsItemFromDict(
                    PyDict([k \in DOMAIN call.val.values.val \cup {"precedence"}
                            |-> IF k = "precedence" THEN PyStr("toml")
                                ELSE call.val.values.val[k]])))
                  => outcome = Raise("ValueError")
    /\ outcome.kind = "AnnotationsItem"
          => outcome.val.precedence \in RecognizedPrecedence
    /\ document.kind = "ReuseTOML"
          => \A i \in DOMAIN document.val.annotations :
                document.val.annotations[i].val.precedence
                    \in RecognizedPrecedence

C4_Witness ==
    /\ IsItemCall
    /\ "precedence" \notin DOMAIN call.val.values.val
    /\ Get(call.val.values, "path", None) = PyStr("**")
    /\ Get(call.val.values, "SPDX-License-Identifier", None) = PyStr("MIT")
    /\ outcome = Raise("ValueError")

\* The elements of a license value as _str_to_set collects them
LicenseElements(value) ==
    IF value.kind = "list" THEN Range(value.val) ELSE {value}

Unparseable == {PyStr("MIT OR")}

HasUnparseableLicense(values) ==
    /\ values.kind = "dict"
    /\ LicenseElements(Get(values, "SPDX-License-Identifier", None))
          \cap Unparseable # {}

PathsAndCopyrightHashable(values) ==
    \A key \in {"path", "SPDX-FileCopyrightText"} :
        LET v == Get(values, key, None)
        IN  v.kind = "list" => \A x \in Range(v.val) : x.kind # "list"

\* C5: when one element of a record's SPDX-License-Identifier does not
\* parse, AnnotationsItem.from_dict raises and returns no item (the
\* expression error, unless collecting the paths or copyright lines into a
\* set already raised), and a ReuseTOML constructor given a document with
\* such a record in its annotations array raises and produces no document.
C5_ExpressionFailFast ==
    /\ (IsItemCall /\ HasUnparseableLicense(call.val.values))
          => /\ IsRaise(outcome)
             /\ PathsAndCopyrightHashable(call.val.values)
                  => outcome = Raise("ExpressionError")
    /\ (/\ HasTomlDict
        /\ Get(CallTomlDict, "annotations", None).kind = "list"
        /\ \E a \in Range(Get(CallTomlDict, "annotations", None).val) :
              HasUnparseableLicense(a))
          => /\ IsRaise(outcome)
             /\ document = None

C5_Witness ==
    /\ call.kind = "ReuseTOML.from_dict"
    /\ Get(call.val.values, "version", None) = PyInt(1)
    /\ LET a == Get(call.val.values, "annotations", None)
       IN  /\ a.kind = "list"
           /\ Len(a.val) = 2
           /\ ~IsRaise(AnnotationsItemFromDict(a.val[1]))
           /\ HasUnparseableLicense(a.val[2])
    /\ outcome = Raise("ExpressionError")
    /\ document = None

IsDep5Load == call.kind = "ReuseDep5.from_file"

\* C6: in ReuseDep5.from_file a file that does not decode as UTF-8 ends in
\* UnicodeDecodeError, never in GlobalLicensingParseError, while every
\* DebianError and every other ValueError raised while reading ends in
\* GlobalLicensingParseError.
C6_DecodeErrorDistinct ==
    IsDep5Load =>
        /\ call.val.file.kind = "undecodable"
              <=> outcome = Raise("UnicodeDecodeError")
        /\ (/\ call.val.file.kind = "text"
            /\ call.val.file.val.kind \in {"notdep5", "malformed", "badvalue"})
              <=> outcome = Raise("GlobalLicensingParseError")

C6_Witness ==
    /\ IsDep5Load
    /\ call.val.file.kind = "undecodable"
    /\ outcome = Raise("UnicodeDecodeError")
    /\ document = None

\* An "annotations" value that is an array of tables
IsArrayOfTables(value) ==
    /\ value.kind = "list"
    /\ \A x \in Range(value.val) : x.kind = "dict"

\* The source given to the last ReuseTOML constructor call is a str
CallSourceIsStr ==
    call.kind = "ReuseTOML.from_file" \/ call.val.source.kind = "str"

\* C7: every ReuseTOML construction given a str source and a document whose
\* version is absent or not an integer, or whose annotations is not an
\* array of tables, fails with GlobalLicensingParseError.
C7_TopLevelFieldParseError ==
    (/\ HasTomlDict
     /\ CallSourceIsStr
     /\ \/ Get(CallTomlDict, "version", None).kind # "int"
        \/ ~IsArrayOfTables(Get(CallTomlDict, "annotations", PyList(<<>>))))
        => outcome = Raise("GlobalLicensingParseError")

\* C8: every AnnotationsItem that construction returns, alone or inside a
\* document, has a non-empty paths set.
C8_PathsNonEmpty ==
    /\ outcome.kind = "AnnotationsItem" => outcome.val.paths # {}
    /\ document.kind = "ReuseTOML"
          => \A i \in DOMAIN document.val.annotations :
                document.val.annotations[i].val.paths # {}

\* What a well-formed annotations table turns into, field by field
ExpectedItem(table) ==
    LET SetOf(v) == IF v.kind = "list" THEN Range(v.val) ELSE {v}
    IN  [kind |-> "AnnotationsItem",
         val |-> [paths |-> SetOf(table.val["path"]),
                  precedence |-> table.val["precedence"],
                  copyright_lines |-> SetOf(table.val["SPDX-FileCopyrightText"]),
                  spdx_expressions |->
                      {Expr(x.val) :
                          x \in SetOf(table.val["SPDX-License-Identifier"])}]]

WellFormedTable(table) ==
    /\ table.kind = "dict"
    /\ DOMAIN table.val = {"path", "precedence", "SPDX-FileCopyrightText",
                           "SPDX-License-Identifier"}
    /\ table.val["precedence"] \in RecognizedPrecedence
    /\ table.val["SPDX-License-Identifier"] \in {PyStr("MIT")}
    /\ table.val["path"] \in {PyStr("**"), PyList(<<>>)}
    /\ table.val["SPDX-FileCopyrightText"].kind = "str"

\* C9: ReuseTOML.from_dict given an integer version, a str source and an
\* array of well-formed tables returns a document whose annotations are the
\* items of the array's elements, one per element and in the array's order;
\* with the annotations key absent it returns a document with no
\* annotations; and any document it returns from an array has one item per
\* element.
C9_AnnotationsInOrder ==
    call.kind = "ReuseTOML.from_dict" =>
        LET values == call.val.values
            a == Get(values, "annotations", Absent)
            versionOk == Get(values, "version", None).kind \in {"int", "bool"}
            sourceOk == call.val.source.kind = "str"
        IN  /\ (versionOk /\ sourceOk /\ a = Absent)
                  => /\ outcome.kind = "ReuseTOML"
                     /\ outcome.val.annotations = <<>>
            /\ (/\ versionOk
                /\ sourceOk
                /\ a.kind = "list"
                /\ \A x \in Range(a.val) : WellFormedTable(x))
                  => /\ outcome.kind = "ReuseTOML"
                     /\ outcome.val.annotations
                            = [i \in DOMAIN a.val |-> ExpectedItem(a.val[i])]
            /\ (outcome.kind = "ReuseTOML" /\ a.kind = "list")
                  => Len(outcome.val.annotations) = Len(a.val)

C9_Witness ==
    /\ call.kind = "ReuseTOML.from_dict"
    /\ outcome.kind = "ReuseTOML"
    /\ Len(outcome.val.annotations) = 2
    /\ outcome.val.annotations[1].val.precedence = PyStr("toml")
    /\ outcome.val.annotations[2].val.precedence = PyStr("aggregate")
    /\ document = outcome

\* C10: ReuseDep5.reuse_info_of returns the empty ReuseInfo when no Files
\* paragraph matches the posix-normalized path, and otherwise a ReuseInfo
\* with the matching paragraph's license, its stripped copyright lines,
\* source type DEP5 and source path ".reuse/dep5".
C10_LegacyLookup ==
    (call.kind = "reuse_info_of" /\ document.kind = "ReuseDep5") =>
        LET path == AsPosix(call.val.path)
            matching == {i \in DOMAIN document.val.dep5_copyright.val :
                            \E pat \in document.val.dep5_copyright.val[i].files :
                                MatchesPattern(pat, path)}
        IN  /\ matching = {} => outcome = EmptyReuseInfo
            /\ matching # {}
                  => /\ outcome.kind = "ReuseInfo"
                     /\ outcome.val.source_type = PyStr("DEP5")
                     /\ outcome.val.source_path = PyStr(".reuse/dep5")
                     /\ outcome.val.path = path

====
